---- MODULE Spec2Model ----
(***************************************************************************)
(* Model of ua-edr-extractor: the heuristic founder-record parser of       *)
(* src/record_parser.py (the run scanners get_extracted / get_fingerprint  *)
(* / get_longest_range, FingerprintClass.classify_fingerprint,             *)
(* HeuristicBasedParser.__init__ / load_dicts / parse_founders_record,     *)
(* EnsembleBasedParser), the categorizer, the pre-processor, the reader    *)
(* and the two transform_company orchestrations.                           *)
(*                                                                         *)
(* Conventions.  Python lists and tuples are sequences; indices and spans  *)
(* keep Python's 0-based, half-open form, and are shifted by one only      *)
(* where a sequence is indexed.  Python's None is the empty tuple.  Tokens *)
(* are strings; the Cyrillic literals of the source are transliterated     *)
(* (the anchor keyword of record_parser.py:234 is written "rozmir").       *)
(* The classification vector holds booleans; Python's True == 1 and        *)
(* False == 0, so "word_cls == 1" is word_cls = TRUE and the initial       *)
(* "state = 0" is FALSE.                                                   *)
(***************************************************************************)
EXTENDS Integers, Sequences, FiniteSets, TLC

VARIABLES names_set, countries_set, pc, record, fingerprint, longest_range,
          fingerprint_cls, founder, include_range, result, raised, memo,
          loaded, fs, attrs, parser, categorizer, category, company,
          transformed, classify_calls, parse_calls, threads, feed, docs,
          ensemble, yielded

vars == <<names_set, countries_set, pc, record, fingerprint, longest_range,
          fingerprint_cls, founder, include_range, result, raised, memo,
          loaded, fs, attrs, parser, categorizer, category, company,
          transformed, classify_calls, parse_calls, threads, feed, docs,
          ensemble, yielded>>

-----------------------------------------------------------------------------
(* Bounds of the model *)

\* longest record over the full token alphabet
MaxLen == 5
\* longest record over the name alphabet (two runs of three need seven)
MaxNameLen == 7
\* most lines of a word-list file
MaxFileLines == 2
\* longest record of the repeated calls
MaxRepeatLen == 3
\* longest run and greatest number of runs of a fingerprint handed to
\* classify_fingerprint directly
MaxRun == 5
MaxRuns == 3

-----------------------------------------------------------------------------
(* Python helpers *)

None == <<>>

Min2(a, b) == IF a < b THEN a ELSE b
Max2(a, b) == IF a > b THEN a ELSE b

\* seq[i] with Python's negative indices; the caller checks PyIndexOK
PyIndexOK(seq, i) == -Len(seq) <= i /\ i < Len(seq)
PyIndex(seq, i) == IF i >= 0 THEN seq[i + 1] ELSE seq[Len(seq) + i + 1]

\* seq[a:b]
PyNorm(seq, i) == IF i < 0 THEN Max2(Len(seq) + i, 0) ELSE Min2(i, Len(seq))
PySlice(seq, a, b) == SubSeq(seq, PyNorm(seq, a) + 1, PyNorm(seq, b))

\* " ".join(seq)
RECURSIVE Join(_)
Join(seq) ==
    IF Len(seq) = 0 THEN ""
    ELSE IF Len(seq) = 1 THEN seq[1]
    ELSE seq[1] \o " " \o Join(Tail(seq))

\* s in t, for strings: s is a substring of t
StrIn(s, t) ==
    \E i \in 0..(Len(t) - Len(s)) : SubSeq(t, i + 1, i + Len(s)) = s

\* max(seq) of a non-empty sequence of integers
PyMax(seq) == CHOOSE m \in {seq[i] : i \in 1..Len(seq)} :
                  \A i \in 1..Len(seq) : seq[i] <= m

\* tuple(map(len, seq))
MapLen(seq) == [i \in 1..Len(seq) |-> Len(seq[i])]

\* one step of a stable insertion by descending len: x goes after every
\* element at least as long
RECURSIVE InsertByLenDesc(_, _)
InsertByLenDesc(sorted, x) ==
    IF sorted = <<>> THEN <<x>>
    ELSE IF Len(sorted[1]) >= Len(x)
         THEN <<sorted[1]>> \o InsertByLenDesc(Tail(sorted), x)
         ELSE <<x>> \o sorted

\* the same, but x goes before the elements of its own length
RECURSIVE InsertByLenDescUnstable(_, _)
InsertByLenDescUnstable(sorted, x) ==
    IF sorted = <<>> THEN <<x>>
    ELSE IF Len(sorted[1]) > Len(x)
         THEN <<sorted[1]>> \o InsertByLenDescUnstable(Tail(sorted), x)
         ELSE <<x>> \o sorted

RECURSIVE SortedUnstable(_)
SortedUnstable(res) ==
    IF res = <<>> THEN <<>>
    ELSE InsertByLenDescUnstable(SortedUnstable(SubSeq(res, 1, Len(res) - 1)),
                                 res[Len(res)])

\* sorted(res, key=lambda x: len(x), reverse=True): Python's sort is stable,
\* also with reverse=True
RECURSIVE SortedByLenDesc(_)
SortedByLenDesc(res) ==
    IF res = <<>> THEN <<>>
    ELSE InsertByLenDesc(SortedByLenDesc(SubSeq(res, 1, Len(res) - 1)),
                         res[Len(res)])

-----------------------------------------------------------------------------
(* FingerprintClass *)

IDEAL == 1
ALMOST_IDEAL == 2
COMPLICATED == 3
COMPLICATED_AND_STRANGE == 4
EMPTY == 5
ALMOST_EMPTY == 6
INCOMPLETE == 7
JUNK == 666

\* the rule for a single run of three tested after the rule for any three
classify_fingerprint_reordered(fp) ==
    IF Len(fp) = 0 THEN EMPTY
    ELSE IF PyMax(fp) = 3 THEN ALMOST_IDEAL
    ELSE IF PyMax(fp) = 3 /\ Len(fp) = 1 THEN IDEAL
    ELSE IF PyMax(fp) > 3 /\ Len(fp) = 1 THEN COMPLICATED
    ELSE IF PyMax(fp) > 3 THEN COMPLICATED_AND_STRANGE
    ELSE IF PyMax(fp) = 1 THEN ALMOST_EMPTY
    ELSE IF PyMax(fp) = 2 THEN INCOMPLETE
    ELSE JUNK

\* the first run tested in place of the longest one
classify_fingerprint_first(fp) ==
    IF Len(fp) = 0 THEN EMPTY
    ELSE IF fp[1] = 3 /\ Len(fp) = 1 THEN IDEAL
    ELSE IF fp[1] = 3 THEN ALMOST_IDEAL
    ELSE IF fp[1] > 3 /\ Len(fp) = 1 THEN COMPLICATED
    ELSE IF fp[1] > 3 THEN COMPLICATED_AND_STRANGE
    ELSE IF fp[1] = 1 THEN ALMOST_EMPTY
    ELSE IF fp[1] = 2 THEN INCOMPLETE
    ELSE JUNK

\* "more than 3" written as "more than 4"
classify_fingerprint_off_by_one(fp) ==
    IF Len(fp) = 0 THEN EMPTY
    ELSE IF PyMax(fp) = 3 /\ Len(fp) = 1 THEN IDEAL
    ELSE IF PyMax(fp) = 3 THEN ALMOST_IDEAL
    ELSE IF PyMax(fp) > 4 /\ Len(fp) = 1 THEN COMPLICATED
    ELSE IF PyMax(fp) > 4 THEN COMPLICATED_AND_STRANGE
    ELSE IF PyMax(fp) = 1 THEN ALMOST_EMPTY
    ELSE IF PyMax(fp) = 2 THEN INCOMPLETE
    ELSE JUNK

classify_fingerprint(fp) ==
    IF Len(fp) = 0 THEN EMPTY
    ELSE IF PyMax(fp) = 3 /\ Len(fp) = 1 THEN IDEAL
    ELSE IF PyMax(fp) = 3 THEN ALMOST_IDEAL
    ELSE IF PyMax(fp) > 3 /\ Len(fp) = 1 THEN COMPLICATED
    ELSE IF PyMax(fp) > 3 THEN COMPLICATED_AND_STRANGE
    ELSE IF PyMax(fp) = 1 THEN ALMOST_EMPTY
    ELSE IF PyMax(fp) = 2 THEN INCOMPLETE
    ELSE JUNK

-----------------------------------------------------------------------------
(* The run scanners.  rec is {"record": tokens, "preclassified": vector}.   *)

\* the loop shared by get_extracted (keep = the tokens) and
\* get_longest_range (keep = the 0-based indices): the state after the
\* elements i.. of the vector
RECURSIVE ScanLoop(_, _, _, _, _, _)
ScanLoop(preclassified, keep, i, state, current_chunk, res) ==
    IF i > Len(preclassified) THEN [res |-> res, current_chunk |-> current_chunk]
    ELSE LET word_cls == preclassified[i] IN
         IF word_cls = TRUE
         THEN ScanLoop(preclassified, keep, i + 1, word_cls,
                       Append(current_chunk, keep[i]), res)
         ELSE IF word_cls # state
         THEN ScanLoop(preclassified, keep, i + 1, word_cls,
                       <<>>, Append(res, current_chunk))
         ELSE ScanLoop(preclassified, keep, i + 1, word_cls, current_chunk, res)

\* "if current_chunk: res.append(current_chunk)"
Flush(scan) ==
    IF scan.current_chunk # <<>> THEN Append(scan.res, scan.current_chunk)
    ELSE scan.res

\* get_extracted without the flush of the open run after the loop
get_extracted_no_flush(rec) ==
    ScanLoop(rec.preclassified, rec.record, 1, FALSE, <<>>, <<>>).res

get_extracted(rec) ==
    Flush(ScanLoop(rec.preclassified, rec.record, 1, FALSE, <<>>, <<>>))

get_fingerprint(rec) == MapLen(get_extracted(rec))

\* the indices counted from one
Indices_from_one(rec) == [i \in 1..Len(rec.preclassified) |-> i]

\* enumerate(record["preclassified"]): the 0-based indices
Indices(rec) == [i \in 1..Len(rec.preclassified) |-> i - 1]

\* the list res of get_longest_range before "if res:"
longest_range_res_no_flush(rec) ==
    ScanLoop(rec.preclassified, Indices(rec), 1, FALSE, <<>>, <<>>).res

longest_range_res(rec) ==
    Flush(ScanLoop(rec.preclassified, Indices(rec), 1, FALSE, <<>>, <<>>))

\* the sort of record_parser.py:338
longest_range_sorted(res) == SortedByLenDesc(res)

\* res[0][0] or res[0][-1] of an empty chunk: IndexError
get_longest_range_raises(rec) ==
    LET res == longest_range_res(rec) IN
    res # <<>> /\ longest_range_sorted(res)[1] = <<>>

\* the value returned; None also stands for the value of a call that raised
get_longest_range(rec) ==
    LET res == longest_range_res(rec) IN
    IF res # <<>> /\ ~get_longest_range_raises(rec)
    THEN LET sorted == longest_range_sorted(res) IN
         <<PyIndex(sorted[1], 0), PyIndex(sorted[1], -1) + 1>>
    ELSE None

-----------------------------------------------------------------------------
(* HeuristicBasedParser.load_dicts.  A file is the sequence of its lines,  *)
(* as iterating the file object yields them (with the line end).           *)

\* the characters str.strip removes (of Python's whitespace, the ones the
\* word lists can hold)
Whitespace == {" ", "\t", "\n", "\r"}

RECURSIVE LStrip(_)
LStrip(s) ==
    IF Len(s) > 0 /\ SubSeq(s, 1, 1) \in Whitespace
    THEN LStrip(SubSeq(s, 2, Len(s)))
    ELSE s

RECURSIVE RStrip(_)
RStrip(s) ==
    IF Len(s) > 0 /\ SubSeq(s, Len(s), Len(s)) \in Whitespace
    THEN RStrip(SubSeq(s, 1, Len(s) - 1))
    ELSE s

\* str.strip
Strip(s) == RStrip(LStrip(s))

\* map(str.strip, fp), as the elements it yields
StrippedLines(fp) == {Strip(fp[i]) : i \in 1..Len(fp)}

\* the loop over include (record_parser.py:134-136)
RECURSIVE IncludeLoop(_, _, _)
IncludeLoop(include, i, imported_set) ==
    IF i > Len(include) THEN imported_set
    ELSE IncludeLoop(include, i + 1,
             imported_set \cup {s \in StrippedLines(include[i]) : Len(s) > 1})

\* the same loop with the length filter applied to the raw lines
RECURSIVE IncludeLoopRawFilter(_, _, _)
IncludeLoopRawFilter(include, i, imported_set) ==
    IF i > Len(include) THEN imported_set
    ELSE IncludeLoopRawFilter(include, i + 1,
             imported_set \cup
                 {Strip(include[i][j]) :
                      j \in {j \in 1..Len(include[i]) : Len(include[i][j]) > 1}})

\* the loop over exclude (record_parser.py:140-142)
RECURSIVE ExcludeLoop(_, _, _)
ExcludeLoop(exclude, i, junk) ==
    IF i > Len(exclude) THEN junk
    ELSE ExcludeLoop(exclude, i + 1, junk \cup StrippedLines(exclude[i]))

load_dicts_raw_filter(include, exclude) ==
    IncludeLoopRawFilter(include, 1, {}) \ ExcludeLoop(exclude, 1, {})

load_dicts(include, exclude) ==
    IncludeLoop(include, 1, {}) \ ExcludeLoop(exclude, 1, {})

-----------------------------------------------------------------------------
(* HeuristicBasedParser.parse_founders_record *)

preclassify_chunk_as_name(chunk) == chunk \in names_set

preclassify_chunk_as_country(chunk) == chunk \in countries_set

name_rec(f) ==
    [record |-> f,
     preclassified |-> [i \in 1..Len(f) |-> preclassify_chunk_as_name(f[i])]]

\* the country vector taken from the names gazetteer
country_rec_from_names(f) ==
    [record |-> f,
     preclassified |-> [i \in 1..Len(f) |-> preclassify_chunk_as_name(f[i])]]

country_rec(f) ==
    [record |-> f,
     preclassified |-> [i \in 1..Len(f) |-> preclassify_chunk_as_country(f[i])]]

\* the anchor keyword and the punctuation string of the trimming
ANCHOR == "rozmir"
PUNCT == ",.;- "

\* x in seq, and seq.index(x) of a list that holds x
ListIn(x, seq) == \E i \in 1..Len(seq) : seq[i] = x
ListIndex(seq, x) ==
    CHOOSE i \in 0..(Len(seq) - 1) :
        seq[i + 1] = x /\ \A j \in 0..(i - 1) : seq[j + 1] # x

\* the name gate without ALMOST_IDEAL
name_gate_narrow(cls) == cls \in {IDEAL, COMPLICATED, COMPLICATED_AND_STRANGE}

\* the name gate written as "not one of the classes without a name"
name_gate_wide(cls) == cls \notin {ALMOST_EMPTY, INCOMPLETE, JUNK}

\* the gate of record_parser.py:213-215
name_gate(cls) ==
    cls \in {IDEAL, COMPLICATED, ALMOST_IDEAL, COMPLICATED_AND_STRANGE}

\* name_rng and names after record_parser.py:203-217; unpacking a missing
\* span (n_rng[0] of None) is a TypeError
name_part_of(rec) ==
    LET f == rec.record
        name_fingerprint == get_fingerprint(rec)
        cls == classify_fingerprint(name_fingerprint)
    IN  IF name_gate(cls)
        THEN LET n_rng == get_longest_range(rec) IN
             IF get_longest_range_raises(rec)
             THEN [name_rng |-> <<>>, names |-> <<>>, raised |-> "IndexError"]
             ELSE IF n_rng = None
             THEN [name_rng |-> <<>>, names |-> <<>>, raised |-> "TypeError"]
             ELSE [name_rng |-> <<n_rng>>,
                   names |-> <<Join(PySlice(f, n_rng[1], n_rng[2]))>>,
                   raised |-> ""]
        ELSE [name_rng |-> <<>>, names |-> <<>>, raised |-> ""]

name_part(f) == name_part_of(name_rec(f))

\* the country gate widened to any single run
country_gate_any_single(fp) == Len(fp) = 1

\* the gate of record_parser.py:226
country_gate(fp) == fp \in {<<1>>, <<2>>, <<3>>}

\* the candidate range that never looks for the anchor
address_candidate_no_anchor(f, country) == <<country[2], Len(f)>>

\* record_parser.py:234-241, the candidate range [country end, anchor or end)
address_candidate(f, country) ==
    IF ListIn(ANCHOR, f)
    THEN <<country[2], ListIndex(f, ANCHOR)>>
    ELSE <<country[2], Len(f)>>

\* record_parser.py:244-248, dropping punctuation: "in" on two strings is
\* the substring test
\* the trimming that moves the bounds outwards
address_trimmed_outwards(f, rng) ==
    <<IF StrIn(PyIndex(f, rng[1]), PUNCT) THEN rng[1] - 1 ELSE rng[1],
      IF StrIn(PyIndex(f, rng[2] - 1), PUNCT) THEN rng[2] + 1 ELSE rng[2]>>

address_trimmed(f, rng) ==
    <<IF StrIn(PyIndex(f, rng[1]), PUNCT) THEN rng[1] + 1 ELSE rng[1],
      IF StrIn(PyIndex(f, rng[2] - 1), PUNCT) THEN rng[2] - 1 ELSE rng[2]>>

\* the address derivation that leaves the rejected range in address_rng
address_part_keep_rng(f, country) ==
    IF country[2] < Len(f)
    THEN LET cand == address_candidate(f, country) IN
         IF ~PyIndexOK(f, cand[1]) \/ ~PyIndexOK(f, cand[2] - 1)
         THEN [address_rng |-> <<>>, addresses |-> <<>>, raised |-> "IndexError"]
         ELSE LET rng == address_trimmed(f, cand) IN
              IF rng[1] < rng[2]
              THEN [address_rng |-> <<rng>>,
                    addresses |-> <<Join(PySlice(f, rng[1], rng[2]))>>,
                    raised |-> ""]
              ELSE [address_rng |-> rng, addresses |-> <<>>, raised |-> ""]
    ELSE [address_rng |-> <<>>, addresses |-> <<>>, raised |-> ""]

\* the address derivation without the test that the country span ends
\* before the end of the record
address_part_no_end_guard(f, country) ==
    LET cand == address_candidate(f, country) IN
    IF ~PyIndexOK(f, cand[1]) \/ ~PyIndexOK(f, cand[2] - 1)
    THEN [address_rng |-> <<>>, addresses |-> <<>>, raised |-> "IndexError"]
    ELSE LET rng == address_trimmed(f, cand) IN
         IF rng[1] < rng[2]
         THEN [address_rng |-> <<rng>>,
               addresses |-> <<Join(PySlice(f, rng[1], rng[2]))>>,
               raised |-> ""]
         ELSE [address_rng |-> <<>>, addresses |-> <<>>, raised |-> ""]

\* the address derivation without the check that the trimmed range is valid
address_part_no_sanity(f, country) ==
    IF country[2] < Len(f)
    THEN LET cand == address_candidate(f, country) IN
         IF ~PyIndexOK(f, cand[1]) \/ ~PyIndexOK(f, cand[2] - 1)
         THEN [address_rng |-> <<>>, addresses |-> <<>>, raised |-> "IndexError"]
         ELSE LET rng == address_trimmed(f, cand) IN
              [address_rng |-> <<rng>>,
               addresses |-> <<Join(PySlice(f, rng[1], rng[2]))>>,
               raised |-> ""]
    ELSE [address_rng |-> <<>>, addresses |-> <<>>, raised |-> ""]

\* record_parser.py:233-255
address_part(f, country) ==
    IF country[2] < Len(f)
    THEN LET cand == address_candidate(f, country) IN
         IF ~PyIndexOK(f, cand[1]) \/ ~PyIndexOK(f, cand[2] - 1)
         THEN [address_rng |-> <<>>, addresses |-> <<>>, raised |-> "IndexError"]
         ELSE LET rng == address_trimmed(f, cand) IN
              IF rng[1] < rng[2]
              THEN [address_rng |-> <<rng>>,
                    addresses |-> <<Join(PySlice(f, rng[1], rng[2]))>>,
                    raised |-> ""]
              ELSE [address_rng |-> <<>>, addresses |-> <<>>, raised |-> ""]
    ELSE [address_rng |-> <<>>, addresses |-> <<>>, raised |-> ""]

\* the address derived from the longest country run also when the country
\* gate fails
country_part_address_ungated(f) ==
    LET rec == country_rec(f)
        country == get_longest_range(rec)
        absent == [country_rng |-> <<>>, countries |-> <<>>,
                   address_rng |-> <<>>, addresses |-> <<>>, raised |-> ""]
    IN  IF country = None THEN absent
        ELSE LET addr == address_part(f, country) IN
             IF country_gate(get_fingerprint(rec))
             THEN [country_rng |-> <<country>>,
                   countries |-> <<Join(PySlice(f, country[1], country[2]))>>,
                   address_rng |-> addr.address_rng,
                   addresses |-> addr.addresses,
                   raised |-> addr.raised]
             ELSE [absent EXCEPT !.address_rng = addr.address_rng,
                                 !.addresses = addr.addresses]

\* country_rng, countries, address_rng and addresses after
\* record_parser.py:219-255
country_part_of(rec) ==
    LET f == rec.record
        country_fingerprint == get_fingerprint(rec)
        absent == [country_rng |-> <<>>, countries |-> <<>>,
                   address_rng |-> <<>>, addresses |-> <<>>, raised |-> ""]
    IN  IF country_gate(country_fingerprint)
        THEN LET country == get_longest_range(rec) IN
             IF get_longest_range_raises(rec)
             THEN [absent EXCEPT !.raised = "IndexError"]
             ELSE IF country = None
             THEN [absent EXCEPT !.raised = "TypeError"]
             ELSE LET addr == address_part(f, country) IN
                  [country_rng |-> <<country>>,
                   countries |-> <<Join(PySlice(f, country[1], country[2]))>>,
                   address_rng |-> addr.address_rng,
                   addresses |-> addr.addresses,
                   raised |-> addr.raised]
        ELSE absent

country_part(f) == country_part_of(country_rec(f))

\* the exception parse_founders_record raises on f, "" when it returns
parse_founders_record_raises(f) ==
    IF name_part(f).raised # "" THEN name_part(f).raised
    ELSE country_part(f).raised

\* the dict returned (record_parser.py:257-270)
parse_result(n, c, with_range) ==
    LET res == ("Name" :> n.names) @@
               ("Country of residence" :> c.countries) @@
               ("Address of residence" :> c.addresses)
    IN  IF with_range
        THEN ("name_rng" :> n.name_rng) @@
             ("country_rng" :> c.country_rng) @@
             ("address_rng" :> c.address_rng) @@ res
        ELSE res

\* the countries list kept between calls instead of starting empty
parse_founders_record_accumulating(f, with_range) ==
    LET r == parse_result(name_part(f), country_part(f), with_range)
        kept == IF DOMAIN result = {} THEN <<>>
                ELSE result["Country of residence"]
    IN  [r EXCEPT !["Country of residence"] = kept \o @]

parse_founders_record(f, with_range) ==
    parse_result(name_part(f), country_part(f), with_range)

-----------------------------------------------------------------------------
(* The inputs and the state machine: one call of one operation on a        *)
(* constructed parser.                                                     *)

Seqs(S, n) == UNION {[1..k -> S] : k \in 0..n}

\* tokens of the records: a name, a country, the anchor, a punctuation
\* token, the empty token (a stripped dash) and a word of no gazetteer
NameTokens == {"ivan", "petrenko", "ta"}
AllTokens == {"ivan", "ukraina", ANCHOR, ",", "", "kyiv"}

NameRecords == Seqs(NameTokens, MaxNameLen)
Records == NameRecords \cup Seqs(AllTokens, MaxLen)
Fingerprints == Seqs(1..MaxRun, MaxRuns)

NoResult == <<>>

\* lines of the word lists: an entry with blanks around it, a single
\* character, an entry with an upper-case letter
IncludeLines == {" ivan\n", "a\n", "Ivan\n"}
ExcludeLines == {"ivan \n", "a\n"}

IncludeLists ==
    UNION {[1..k -> Seqs(IncludeLines, MaxFileLines)] : k \in 1..2}
ExcludeLists ==
    UNION {[1..k -> Seqs(ExcludeLines, MaxFileLines)] : k \in 0..1}

NoDicts == [include |-> <<>>, exclude |-> <<>>, imported_set |-> {}]

\* memo remembers one earlier call of parse_founders_record and what it
\* returned; between tells that a call on another record was made since
NoMemo ==
    [set |-> FALSE, between |-> FALSE, founder |-> <<>>,
     include_range |-> FALSE, result |-> NoResult, raised |-> ""]

\* the marker sets of the categorizer (categorizer.py:24-31), read from
\* the three marker files with set(map(str.strip, fp))
Markers ==
    [bo_markers |-> {"beneficiarnyi", "kontroler"},
     absent_markers |-> {"vidsutnii"},
     ref_markers |-> {"zasnovnyk"}]

NoCategory == [op |-> "", tokenized_record |-> <<>>, value |-> FALSE]

\* no company record handed over yet
NoCompany == [name |-> "", edrpou |-> "", founders |-> <<>>]

\* worker threads calling into the one parser and the one categorizer, and
\* the frame of a call: its arguments and local variables
Threads == {"t1", "t2"}

IdleFrame ==
    [pc |-> "idle", op |-> "", founder |-> <<>>,
     name_rec |-> [record |-> <<>>, preclassified |-> <<>>],
     names |-> [name_rng |-> <<>>, names |-> <<>>, raised |-> ""],
     country_rec |-> [record |-> <<>>, preclassified |-> <<>>],
     countries |-> [country_rng |-> <<>>, countries |-> <<>>,
                    address_rng |-> <<>>, addresses |-> <<>>, raised |-> ""],
     result |-> NoResult, value |-> FALSE]

\* no ensemble parser constructed yet
NoEnsemble ==
    [self |-> [voters |-> <<>>], cutoff |-> 1, rec_bound |-> FALSE,
     cntr |-> <<>>]

\* no operation has been called yet
NoCall ==
    /\ record = [record |-> <<>>, preclassified |-> <<>>]
    /\ fingerprint = <<>>
    /\ longest_range = None
    /\ fingerprint_cls = JUNK
    /\ founder = <<>>
    /\ include_range = FALSE
    /\ result = NoResult
    /\ raised = ""
    /\ memo = NoMemo
    /\ loaded = NoDicts
    /\ categorizer = Markers
    /\ category = NoCategory
    /\ company = NoCompany
    /\ transformed = NoResult
    /\ classify_calls = <<>>
    /\ parse_calls = <<>>
    /\ threads = [t \in Threads |-> IdleFrame]
    /\ feed = <<>>
    /\ docs = <<>>
    /\ ensemble = NoEnsemble
    /\ yielded = <<>>

\* the word lists on disk, by file name (record_parser.py:107-115): a file
\* is either unreadable (missing, no permission) or holds lines
NAMES_INCLUDE == <<"fuge_name_dataset.txt", "extra_names.txt">>
NAMES_EXCLUDE == <<"names_junk.txt">>
COUNTRIES_INCLUDE == <<"countries.txt">>
COUNTRIES_EXCLUDE == <<>>

DatasetFiles ==
    {"fuge_name_dataset.txt", "extra_names.txt", "names_junk.txt",
     "countries.txt"}

Unreadable == [readable |-> FALSE, lines |-> <<>>]
File(lines) == [readable |-> TRUE, lines |-> lines]

\* the word lists of the constructed parser of Init
InstalledFiles ==
    [f \in DatasetFiles |->
        CASE f = "fuge_name_dataset.txt" -> File(<<"ivan\n", "ta\n">>)
          [] f = "extra_names.txt" -> File(<<"petrenko\n">>)
          [] f = "names_junk.txt" -> File(<<"ta\n">>)
          [] f = "countries.txt" -> File(<<"ukraina\n">>)]

\* what the files of each name may be before a construction
FileChoices(f) ==
    CASE f = "fuge_name_dataset.txt" ->
             {Unreadable, File(<<"ivan\n", "ta\n">>), File(<<>>)}
      [] f = "extra_names.txt" -> {Unreadable, File(<<"petrenko\n">>)}
      [] f = "names_junk.txt" -> {Unreadable, File(<<"ta\n">>), File(<<>>)}
      [] f = "countries.txt" -> {Unreadable, File(<<"ukraina\n">>)}

FileSystems == {d \in [DatasetFiles -> UNION {FileChoices(f) : f \in DatasetFiles}] :
                   \A f \in DatasetFiles : d[f] \in FileChoices(f)}

\* the attributes __init__ assigns on the instance
ATTRIBUTES == {"names_set", "countries_set"}

Init ==
    /\ names_set = {"ivan", "petrenko"}
    /\ countries_set = {"ukraina"}
    /\ fs = InstalledFiles
    /\ attrs = ATTRIBUTES
    /\ parser = TRUE
    /\ pc = "idle"
    /\ NoCall

GetFingerprint ==
    /\ pc = "idle"
    /\ \E f \in NameRecords :
          /\ record' = name_rec(f)
          /\ fingerprint' = get_fingerprint(name_rec(f))
    /\ pc' = "get_fingerprint"
    /\ UNCHANGED <<names_set, countries_set, longest_range, fingerprint_cls,
                   founder, include_range, result, raised, memo, loaded, fs,
                   attrs, parser, categorizer, category, company,
                   transformed, classify_calls, parse_calls, threads, feed,
                   docs, ensemble, yielded>>

GetLongestRange ==
    /\ pc = "idle"
    /\ \E f \in NameRecords :
          /\ record' = name_rec(f)
          /\ longest_range' = get_longest_range(name_rec(f))
          /\ raised' = IF get_longest_range_raises(name_rec(f))
                       THEN "IndexError" ELSE ""
    /\ pc' = "get_longest_range"
    /\ UNCHANGED <<names_set, countries_set, fingerprint, fingerprint_cls,
                   founder, include_range, result, memo, loaded, fs, attrs,
                   parser, categorizer, category, company, transformed,
                   classify_calls, parse_calls, threads, feed, docs,
                   ensemble, yielded>>

ClassifyFingerprint ==
    /\ pc = "idle"
    /\ \E fp \in Fingerprints :
          /\ fingerprint' = fp
          /\ fingerprint_cls' = classify_fingerprint(fp)
    /\ pc' = "classify_fingerprint"
    /\ UNCHANGED <<names_set, countries_set, record, longest_range,
                   founder, include_range, result, raised, memo, loaded, fs,
                   attrs, parser, categorizer, category, company,
                   transformed, classify_calls, parse_calls, threads, feed,
                   docs, ensemble, yielded>>

ParseFoundersRecordOn(S) ==
    /\ pc = "idle"
    /\ parser
    /\ \E f \in S, with_range \in BOOLEAN :
          /\ founder' = f
          /\ include_range' = with_range
          /\ raised' = parse_founders_record_raises(f)
          /\ result' = IF parse_founders_record_raises(f) = ""
                       THEN parse_founders_record(f, with_range)
                       ELSE NoResult
    /\ pc' = "parse_founders_record"
    /\ UNCHANGED <<names_set, countries_set, record, fingerprint,
                   longest_range, fingerprint_cls, memo, loaded, fs, attrs,
                   parser, categorizer, category, company, transformed,
                   classify_calls, parse_calls, threads, feed, docs,
                   ensemble, yielded>>

ParseFoundersRecord == ParseFoundersRecordOn(Records)

Next ==
    \/ GetFingerprint
    \/ GetLongestRange
    \/ ClassifyFingerprint
    \/ ParseFoundersRecord

Spec == Init /\ [][Next]_vars

-----------------------------------------------------------------------------
(* Loading a gazetteer: load_dicts on the word lists, called as __init__   *)
(* calls it, with one or two include files and at most one exclude file.   *)

LoadDicts ==
    /\ pc = "idle"
    /\ \E include \in IncludeLists, exclude \in ExcludeLists :
          loaded' = [include |-> include, exclude |-> exclude,
                     imported_set |-> load_dicts(include, exclude)]
    /\ pc' = "load_dicts"
    /\ UNCHANGED <<names_set, countries_set, record, fingerprint,
                   longest_range, fingerprint_cls, founder, include_range,
                   result, raised, memo, fs, attrs, parser, categorizer,
                   category, company, transformed, classify_calls,
                   parse_calls, threads, feed, docs, ensemble, yielded>>

NextLoad == LoadDicts

SpecLoad == Init /\ [][NextLoad]_vars

-----------------------------------------------------------------------------
(* Repeated calls on one parser instance: the caller takes the result and  *)
(* calls parse_founders_record again (Transformer.parse_beneficial_owners  *)
(* maps it over the founder records).                                      *)

RepeatTokens == {"ukraina", "kyiv"}
RepeatRecords == Seqs(RepeatTokens, MaxRepeatLen)

ParseRepeated == ParseFoundersRecordOn(RepeatRecords)

\* the call returns; the caller keeps the result it was handed
Return ==
    /\ pc = "parse_founders_record"
    /\ pc' = "idle"
    /\ \/ memo' = [set |-> TRUE, between |-> FALSE, founder |-> founder,
                   include_range |-> include_range, result |-> result,
                   raised |-> raised]
       \/ memo' = IF memo.set
                  THEN [memo EXCEPT !.between = @ \/ founder # memo.founder]
                  ELSE memo
    /\ UNCHANGED <<names_set, countries_set, record, fingerprint,
                   longest_range, fingerprint_cls, founder, include_range,
                   result, raised, loaded, fs, attrs, parser, categorizer,
                   category, company, transformed, classify_calls,
                   parse_calls, threads, feed, docs, ensemble, yielded>>

NextRepeat ==
    \/ ParseRepeated
    \/ Return

SpecRepeat == Init /\ [][NextRepeat]_vars

-----------------------------------------------------------------------------
(* What the properties speak of: the maximal runs of a vector, stated      *)
(* without a scan.                                                         *)

\* the maximal runs of TRUE of V, as pairs of 1-based first and last index
Runs(V) ==
    {r \in (1..Len(V)) \X (1..Len(V)) :
        /\ r[1] <= r[2]
        /\ \A i \in r[1]..r[2] : V[i]
        /\ (r[1] = 1 \/ ~V[r[1] - 1])
        /\ (r[2] = Len(V) \/ ~V[r[2] + 1])}

RunLen(r) == r[2] - r[1] + 1

\* the k-th run from the left
KthRun(V, k) ==
    CHOOSE r \in Runs(V) : Cardinality({q \in Runs(V) : q[1] < r[1]}) = k - 1

RunLengthsInOrder(V) ==
    [k \in 1..Cardinality(Runs(V)) |-> RunLen(KthRun(V, k))]

\* the longest run, the leftmost of the longest ones
LongestEarliestRun(V) ==
    CHOOSE r \in Runs(V) :
        \A q \in Runs(V) :
            \/ RunLen(q) < RunLen(r)
            \/ (RunLen(q) = RunLen(r) /\ r[1] <= q[1])

NameVector(f) == [i \in 1..Len(f) |-> f[i] \in names_set]
CountryVector(f) == [i \in 1..Len(f) |-> f[i] \in countries_set]

-----------------------------------------------------------------------------
(* Properties *)

\* C1: get_fingerprint returns exactly the lengths of the maximal runs of
\* true values of the vector, left to right; false runs contribute nothing
\* and an empty or all-false vector gives the empty tuple.
C1_FingerprintIsRunLengths ==
    pc = "get_fingerprint" =>
        /\ fingerprint = RunLengthsInOrder(record.preclassified)
        /\ \A k \in 1..Len(fingerprint) : fingerprint[k] > 0
        /\ ((\A i \in 1..Len(record.preclassified) : ~record.preclassified[i])
                => fingerprint = <<>>)

C1_Witness ==
    /\ pc = "get_fingerprint"
    /\ record.preclassified = <<TRUE, TRUE, FALSE, TRUE, TRUE, TRUE, FALSE>>
    /\ fingerprint = <<2, 3>>

\* C2: on a vector with a true value get_longest_range returns the
\* half-open pair (first index, last index + 1) of a longest maximal run,
\* the one with the lowest start among the longest.
C2_LongestRangeIsLongestEarliestRun ==
    (pc = "get_longest_range" /\ Runs(record.preclassified) # {}) =>
        LET best == LongestEarliestRun(record.preclassified) IN
        longest_range = <<best[1] - 1, best[2]>>

C2_Witness ==
    /\ pc = "get_longest_range"
    /\ record.preclassified = <<FALSE, TRUE, TRUE, FALSE, TRUE, TRUE>>
    /\ longest_range = <<1, 3>>

\* C3: get_longest_range returns None exactly when the vector holds no true
\* value (the empty vector, an all-false vector), and does not raise.
C3_NoneIffNoTrue ==
    pc = "get_longest_range" =>
        /\ raised = ""
        /\ (longest_range = None <=>
                \A i \in 1..Len(record.preclassified) :
                    ~record.preclassified[i])

C3_Witness ==
    /\ pc = "get_longest_range"
    /\ record.preclassified = <<FALSE, FALSE, FALSE>>
    /\ longest_range = None
    /\ raised = ""

\* C4: classify_fingerprint maps the empty fingerprint to EMPTY and a
\* single-run fingerprint (n,) to ALMOST_EMPTY for n = 1, INCOMPLETE for
\* n = 2, IDEAL for n = 3 and COMPLICATED for n > 3.
C4_SingleRunClasses ==
    (pc = "classify_fingerprint" /\ Len(fingerprint) <= 1) =>
        IF Len(fingerprint) = 0 THEN fingerprint_cls = EMPTY
        ELSE /\ (fingerprint[1] = 1 => fingerprint_cls = ALMOST_EMPTY)
             /\ (fingerprint[1] = 2 => fingerprint_cls = INCOMPLETE)
             /\ (fingerprint[1] = 3 => fingerprint_cls = IDEAL)
             /\ (fingerprint[1] > 3 => fingerprint_cls = COMPLICATED)

C4_Witness ==
    /\ pc = "classify_fingerprint"
    /\ fingerprint = <<4>>
    /\ fingerprint_cls = COMPLICATED

\* C5 as stated: with two or more runs, any run of length exactly 3 gives
\* ALMOST_IDEAL; otherwise any run longer than 3 gives
\* COMPLICATED_AND_STRANGE; otherwise ALMOST_EMPTY when the longest run is 1
\* and INCOMPLETE when it is 2.
C5_AnyRunOfThree ==
    (pc = "classify_fingerprint" /\ Len(fingerprint) >= 2) =>
        LET n == Len(fingerprint) IN
        IF \E i \in 1..n : fingerprint[i] = 3
        THEN fingerprint_cls = ALMOST_IDEAL
        ELSE IF \E i \in 1..n : fingerprint[i] > 3
        THEN fingerprint_cls = COMPLICATED_AND_STRANGE
        ELSE IF \A i \in 1..n : fingerprint[i] <= 1
        THEN fingerprint_cls = ALMOST_EMPTY
        ELSE fingerprint_cls = INCOMPLETE

\* C5 amended: with two or more runs, the class is ALMOST_IDEAL when the
\* longest run has length exactly 3 (a run of 3 and none longer);
\* otherwise COMPLICATED_AND_STRANGE when some run is longer than 3;
\* otherwise ALMOST_EMPTY when the longest run is 1 and INCOMPLETE when it
\* is 2.
C5_LongestRunOfThree ==
    (pc = "classify_fingerprint" /\ Len(fingerprint) >= 2) =>
        LET n == Len(fingerprint) IN
        IF (\E i \in 1..n : fingerprint[i] = 3)
               /\ (\A i \in 1..n : fingerprint[i] <= 3)
        THEN fingerprint_cls = ALMOST_IDEAL
        ELSE IF \E i \in 1..n : fingerprint[i] > 3
        THEN fingerprint_cls = COMPLICATED_AND_STRANGE
        ELSE IF \A i \in 1..n : fingerprint[i] <= 1
        THEN fingerprint_cls = ALMOST_EMPTY
        ELSE fingerprint_cls = INCOMPLETE

C5_Witness ==
    /\ pc = "classify_fingerprint"
    /\ fingerprint = <<3, 4>>
    /\ fingerprint_cls = COMPLICATED_AND_STRANGE

\* C6: classify_fingerprint never returns JUNK for a tuple of positive
\* integers: the class is one of the seven other classes.
C6_NeverJunk ==
    pc = "classify_fingerprint" =>
        /\ fingerprint_cls # JUNK
        /\ fingerprint_cls \in {IDEAL, ALMOST_IDEAL, COMPLICATED,
                                COMPLICATED_AND_STRANGE, EMPTY, ALMOST_EMPTY,
                                INCOMPLETE}

C6_Witness ==
    /\ pc = "classify_fingerprint"
    /\ fingerprint = <<2, 5, 1>>
    /\ fingerprint_cls = COMPLICATED_AND_STRANGE

\* the tokens of a run, joined by single spaces
RunText(f, r) == Join(SubSeq(f, r[1], r[2]))

\* C7: parse_founders_record reports a Name if and only if the name vector
\* has a maximal run of length >= 3 (equivalently its class is IDEAL,
\* ALMOST_IDEAL, COMPLICATED or COMPLICATED_AND_STRANGE); the Name is then
\* the single-space join of the tokens of the longest run, the earliest on
\* ties, and at most one Name is reported.
C7_NameIffRunOfThree ==
    pc = "parse_founders_record" =>
        LET V == NameVector(founder)
            cls == classify_fingerprint(RunLengthsInOrder(V))
            long == \E r \in Runs(V) : RunLen(r) >= 3
        IN  /\ raised = ""
            /\ (result["Name"] # <<>>) <=> long
            /\ long <=> cls \in {IDEAL, ALMOST_IDEAL, COMPLICATED,
                                 COMPLICATED_AND_STRANGE}
            /\ Len(result["Name"]) <= 1
            /\ long => result["Name"] =
                           <<RunText(founder, LongestEarliestRun(V))>>

C7_Witness ==
    /\ pc = "parse_founders_record"
    /\ founder = <<"ivan", "petrenko", "ivan", "ta",
                   "petrenko", "ivan", "ivan">>
    /\ result["Name"] = <<"ivan petrenko ivan">>

\* a country span is found: exactly one maximal run, of length 1, 2 or 3
SoleShortRun(V) ==
    /\ Cardinality(Runs(V)) = 1
    /\ \A r \in Runs(V) : RunLen(r) \in 1..3

\* C8: parse_founders_record reports a Country if and only if the country
\* vector has exactly one maximal run and that run has length 1, 2 or 3;
\* the Country is then the single-space join of the tokens of that run.
\* Two or more country runs, or a single run longer than 3, report no
\* Country.
C8_CountryIffSoleShortRun ==
    pc = "parse_founders_record" =>
        LET V == CountryVector(founder) IN
        /\ raised = ""
        /\ (result["Country of residence"] # <<>>) <=> SoleShortRun(V)
        /\ SoleShortRun(V) =>
               result["Country of residence"] =
                   <<RunText(founder, CHOOSE r \in Runs(V) : TRUE)>>
        /\ (Cardinality(Runs(V)) >= 2 \/ \E r \in Runs(V) : RunLen(r) > 3)
               => result["Country of residence"] = <<>>

C8_Witness ==
    /\ pc = "parse_founders_record"
    /\ founder = <<"kyiv", "ukraina", "ukraina", ",">>
    /\ result["Country of residence"] = <<"ukraina ukraina">>

\* the punctuation characters of the trimming, and tokens made of them only
PunctChars == {",", ".", ";", "-", " "}
PunctOnly(t) == \A i \in 1..Len(t) : SubSeq(t, i, i) \in PunctChars

HasAnchor(f) == \E i \in 1..Len(f) : f[i] = ANCHOR

\* the 0-based index of the first occurrence of the anchor
FirstAnchor(f) ==
    (CHOOSE i \in 1..Len(f) :
        f[i] = ANCHOR /\ \A j \in 1..(i - 1) : f[j] # ANCHOR) - 1

C10_NoEmptyAddress ==
    pc = "parse_founders_record" =>
        \A i \in 1..Len(result["Address of residence"]) :
            result["Address of residence"][i] # ""

\* the 0-based end k of the sole country run, and the 0-based end b of the
\* candidate address range: the first anchor, or the end of the record
CountryEnd(f) == (CHOOSE r \in Runs(CountryVector(f)) : TRUE)[2]
CandidateEnd(f) == IF HasAnchor(f) THEN FirstAnchor(f) ELSE Len(f)

\* C11: the leading token of the candidate range is dropped if and only if
\* it is exactly one of the five one-character tokens , . ; - and space,
\* and likewise the trailing token; any other token (a longer string, the
\* empty string) is kept.  Stated on the reported address range.
C11_TrimOnlyFivePunctTokens ==
    (/\ pc = "parse_founders_record"
     /\ include_range
     /\ SoleShortRun(CountryVector(founder))
     /\ result["address_rng"] # <<>>) =>
        LET f == founder
            k == CountryEnd(f)
            b == CandidateEnd(f)
            rng == result["address_rng"][1]
        IN  /\ rng[1] = k + 1 <=> f[k + 1] \in PunctChars
            /\ rng[1] = k <=> f[k + 1] \notin PunctChars
            /\ rng[2] = b - 1 <=> f[b] \in PunctChars
            /\ rng[2] = b <=> f[b] \notin PunctChars

\* C12: when a country span is found and the candidate address range is
\* empty or inverted after trimming (the anchor right after the country
\* span, the first anchor before the end of the country span, also at index
\* 0, or nothing but punctuation tokens), no Address and no address range
\* are reported and nothing is raised.
C12_EmptyRangeNoAddress ==
    (/\ pc = "parse_founders_record"
     /\ SoleShortRun(CountryVector(founder))) =>
        LET f == founder
            k == CountryEnd(f)
            b == CandidateEnd(f)
            lead == IF f[k + 1] \in PunctChars THEN 1 ELSE 0
            trail == IF f[b] \in PunctChars THEN 1 ELSE 0
        IN  /\ raised = ""
            /\ (k < Len(f) /\ (b <= k \/ k + lead >= b - trail)) =>
                   /\ result["Address of residence"] = <<>>
                   /\ include_range => result["address_rng"] = <<>>

C12_Witness ==
    /\ pc = "parse_founders_record"
    /\ founder = <<ANCHOR, "ukraina", "kyiv">>
    /\ include_range
    /\ raised = ""
    /\ result["Address of residence"] = <<>>
    /\ result["address_rng"] = <<>>

\* C13: an Address is reported only if a Country is reported: whenever the
\* country fingerprint is not one of (1,), (2,), (3,), the Address text and
\* the address range are absent.
C13_AddressOnlyWithCountry ==
    pc = "parse_founders_record" =>
        /\ result["Address of residence"] # <<>>
               => result["Country of residence"] # <<>>
        /\ ~SoleShortRun(CountryVector(founder)) =>
               /\ result["Address of residence"] = <<>>
               /\ include_range => result["address_rng"] = <<>>

C13_Witness ==
    /\ pc = "parse_founders_record"
    /\ founder = <<"ukraina", "kyiv", "ukraina", "kyiv">>
    /\ include_range
    /\ result["Country of residence"] = <<>>
    /\ result["Address of residence"] = <<>>
    /\ result["address_rng"] = <<>>

\* the parser with other gazetteers: the record dicts parse_founders_record
\* would build from them, handed to the same extraction
GazetteerRec(gaz, f) ==
    [record |-> f, preclassified |-> [i \in 1..Len(f) |-> f[i] \in gaz]]

ParseWith(ns, cs, f) ==
    parse_result(name_part_of(GazetteerRec(ns, f)),
                 country_part_of(GazetteerRec(cs, f)), TRUE)

OtherGazetteers ==
    {{}, {"ukraina", "kyiv"}, {"ivan", "petrenko", "ta", "kyiv"}}

\* C14: name extraction and country/address extraction are independent:
\* for a fixed token sequence the reported Country and Address (and their
\* ranges) are the same for every names gazetteer, the reported Name (and
\* its range) is the same for every countries gazetteer, and a found Name
\* never brings a Country when the country gate fails.
C14_NameAndCountryIndependent ==
    pc = "parse_founders_record" =>
        /\ \A ns \in OtherGazetteers :
               LET o == ParseWith(ns, countries_set, founder) IN
               /\ o["Country of residence"] = result["Country of residence"]
               /\ o["Address of residence"] = result["Address of residence"]
               /\ include_range =>
                      /\ o["country_rng"] = result["country_rng"]
                      /\ o["address_rng"] = result["address_rng"]
        /\ \A cs \in OtherGazetteers :
               LET o == ParseWith(names_set, cs, founder) IN
               /\ o["Name"] = result["Name"]
               /\ include_range => o["name_rng"] = result["name_rng"]
        /\ (result["Name"] # <<>> /\ ~SoleShortRun(CountryVector(founder)))
               => result["Country of residence"] = <<>>

C14_Witness ==
    /\ pc = "parse_founders_record"
    /\ founder = <<"ivan", "ivan", "ivan", "ukraina", "kyiv">>
    /\ result["Name"] = <<"ivan ivan ivan">>
    /\ result["Country of residence"] = <<"ukraina">>
    /\ ParseWith({}, countries_set, founder)["Name"] = <<>>
    /\ ParseWith({}, countries_set, founder)["Country of residence"]
           = <<"ukraina">>
    /\ ParseWith(names_set, {"ukraina", "kyiv"}, founder)["Name"]
           = <<"ivan ivan ivan">>
    /\ ParseWith(names_set, {"ukraina", "kyiv"}, founder)["Address of residence"]
           = <<>>

TextKeys == {"Name", "Country of residence", "Address of residence"}
RangeKeys == {"name_rng", "country_rng", "address_rng"}

\* C15: parse_founders_record is total: for every token sequence (any
\* placement of name tokens, country tokens, punctuation, empty tokens and
\* the anchor) it returns a result record and raises nothing.
C15_ParseIsTotal ==
    pc = "parse_founders_record" =>
        /\ raised = ""
        /\ DOMAIN result =
               IF include_range THEN TextKeys \cup RangeKeys ELSE TextKeys
        /\ \A key \in DOMAIN result : Len(result[key]) <= 1

C15_Witness ==
    /\ pc = "parse_founders_record"
    /\ founder = <<ANCHOR, "", "ukraina", "ukraina", ",">>
    /\ raised = ""
    /\ result["Country of residence"] = <<"ukraina ukraina">>
    /\ result["Address of residence"] = <<>>

\* C16: on the empty token list parse_founders_record returns a result in
\* which Name, Country and Address are absent (and, with include_range, the
\* three ranges are absent), and raises nothing.
C16_EmptyRecordAllAbsent ==
    (pc = "parse_founders_record" /\ founder = <<>>) =>
        /\ raised = ""
        /\ DOMAIN result =
               IF include_range THEN TextKeys \cup RangeKeys ELSE TextKeys
        /\ \A key \in DOMAIN result : result[key] = <<>>

C16_Witness ==
    /\ pc = "parse_founders_record"
    /\ founder = <<>>
    /\ include_range
    /\ raised = ""
    /\ result["Name"] = <<>>
    /\ result["name_rng"] = <<>>

\* C17: after any sequence of parse_founders_record calls on one parser
\* the names and countries gazetteers are unchanged, and a call on a token
\* sequence parsed earlier returns a result identical to the earlier one,
\* whatever was parsed in between.
C17_RepeatedParseIdentical ==
    /\ names_set = {"ivan", "petrenko"}
    /\ countries_set = {"ukraina"}
    /\ (/\ pc = "parse_founders_record"
        /\ memo.set
        /\ memo.founder = founder
        /\ memo.include_range = include_range) =>
           /\ result = memo.result
           /\ raised = memo.raised

C17_Witness ==
    /\ pc = "parse_founders_record"
    /\ memo.set
    /\ memo.between
    /\ memo.founder = <<"ukraina", "kyiv">>
    /\ founder = <<"ukraina", "kyiv">>
    /\ memo.include_range = include_range
    /\ result = memo.result
    /\ result["Address of residence"] = <<"kyiv">>

\* the range key of a text key
RangeKeyOf(key) ==
    CASE key = "Name" -> "name_rng"
      [] key = "Country of residence" -> "country_rng"
      [] key = "Address of residence" -> "address_rng"

\* C18: with include_range the result carries name_rng, country_rng and
\* address_rng; a range is present exactly when its text field is, a
\* present range (s, e) has 0 <= s < e <= len(tokens) and the text is the
\* single-space join of tokens[s..e); the text fields equal those of the
\* result without include_range, which carries no range key.
C18_RangesMatchTexts ==
    pc = "parse_founders_record" =>
        IF include_range
        THEN /\ DOMAIN result = TextKeys \cup RangeKeys
             /\ \A key \in TextKeys :
                    LET rngs == result[RangeKeyOf(key)] IN
                    /\ Len(rngs) = Len(result[key])
                    /\ Len(rngs) <= 1
                    /\ \A i \in 1..Len(rngs) :
                           /\ Len(rngs[i]) = 2
                           /\ 0 <= rngs[i][1]
                           /\ rngs[i][1] < rngs[i][2]
                           /\ rngs[i][2] <= Len(founder)
                           /\ result[key][i] =
                                  Join(SubSeq(founder, rngs[i][1] + 1,
                                              rngs[i][2]))
                    /\ result[key] = parse_founders_record(founder, FALSE)[key]
        ELSE DOMAIN result = TextKeys

C18_Witness ==
    /\ pc = "parse_founders_record"
    /\ include_range
    /\ founder = <<"ivan", "ivan", "ivan", "ukraina", "kyiv">>
    /\ result["name_rng"] = <<<<0, 3>>>>
    /\ result["country_rng"] = <<<<3, 4>>>>
    /\ result["address_rng"] = <<<<4, 5>>>>
    /\ result["Address of residence"] = <<"kyiv">>

\* the lines of a list of files
LinesOf(files) ==
    UNION {{files[i][j] : j \in 1..Len(files[i])} : i \in 1..Len(files)}

IsBlank(s) == \A i \in 1..Len(s) : SubSeq(s, i, i) \in Whitespace

\* line without its surrounding whitespace, stated without a scan: the
\* piece between a blank prefix and a blank suffix that neither starts nor
\* ends with whitespace
Trimmed(s) ==
    CHOOSE t \in {SubSeq(s, i, j) : i \in 1..(Len(s) + 1), j \in 0..Len(s)} :
        /\ \E i \in 1..(Len(s) + 1), j \in 0..Len(s) :
               /\ t = SubSeq(s, i, j)
               /\ IsBlank(SubSeq(s, 1, i - 1))
               /\ IsBlank(SubSeq(s, j + 1, Len(s)))
        /\ (Len(t) > 0 =>
               /\ SubSeq(t, 1, 1) \notin Whitespace
               /\ SubSeq(t, Len(t), Len(t)) \notin Whitespace)

\* C19: load_dicts(include, exclude) returns exactly the stripped include
\* lines longer than one character minus the stripped exclude lines (no
\* length filter on the exclude side); only the sets of lines matter, not
\* the order of the files or of the lines.
C19_LoadDictsIsIncludeMinusExclude ==
    pc = "load_dicts" =>
        loaded.imported_set =
            {Trimmed(l) : l \in {l \in LinesOf(loaded.include) :
                                     Len(Trimmed(l)) > 1}}
                \ {Trimmed(l) : l \in LinesOf(loaded.exclude)}

C19_Witness ==
    /\ pc = "load_dicts"
    /\ loaded.include = <<<<"a\n", " ivan\n">>, <<"Ivan\n">>>>
    /\ loaded.exclude = <<<<"ivan \n">>>>
    /\ loaded.imported_set = {"Ivan"}

\* str.lower, on the letters of the basic Latin alphabet
UpperLetters == "ABCDEFGHIJKLMNOPQRSTUVWXYZ"
LowerLetters == "abcdefghijklmnopqrstuvwxyz"

LowerChar(c) ==
    IF \E i \in 1..Len(UpperLetters) : SubSeq(UpperLetters, i, i) = c
    THEN LET i == CHOOSE i \in 1..Len(UpperLetters) :
                      SubSeq(UpperLetters, i, i) = c
         IN  SubSeq(LowerLetters, i, i)
    ELSE c

RECURSIVE Lower(_)
Lower(s) ==
    IF Len(s) = 0 THEN ""
    ELSE LowerChar(SubSeq(s, 1, 1)) \o Lower(SubSeq(s, 2, Len(s)))

\* C20: every entry of a gazetteer built by load_dicts is normalized, both
\* trimmed and case-folded: a line with upper-case letters is stored in its
\* case-folded form, so that the lower-cased token matches it.
C20_EntriesTrimmedAndCaseFolded ==
    pc = "load_dicts" =>
        \A e \in loaded.imported_set : e = Trimmed(e) /\ e = Lower(e)

-----------------------------------------------------------------------------
(* Construction of the parser: HeuristicBasedParser.__init__ calls         *)
(* load_dicts for the names and then for the countries; load_dicts opens   *)
(* every file with open(fname, "r") and has no exception handler, so the   *)
(* error of an unreadable file leaves load_dicts and __init__.             *)

ReadFiles(d, paths) == [i \in 1..Len(paths) |-> d[paths[i]].lines]

open_raises(d, paths) == \E i \in 1..Len(paths) : ~d[paths[i]].readable

load_dicts_raises_include_only(d, include, exclude) == open_raises(d, include)

load_dicts_raises(d, include, exclude) ==
    open_raises(d, include) \/ open_raises(d, exclude)

ConstructTokens == {"ivan", "petrenko", "ukraina"}
ConstructRecords == Seqs(ConstructTokens, MaxRepeatLen)

InitConstruct ==
    /\ fs \in FileSystems
    /\ names_set = {}
    /\ countries_set = {}
    /\ attrs = {}
    /\ parser = FALSE
    /\ pc = "__init__"
    /\ NoCall

\* self.names_set = self.load_dicts(include=[...], exclude=[...])
InitNames ==
    /\ pc = "__init__"
    /\ IF load_dicts_raises(fs, NAMES_INCLUDE, NAMES_EXCLUDE)
       THEN /\ raised' = "OSError"
            /\ pc' = "raised"
            /\ UNCHANGED <<names_set, attrs, categorizer, category, company, transformed,
                   classify_calls, parse_calls, threads, feed, docs,
                   ensemble, yielded>>
       ELSE /\ names_set' = load_dicts(ReadFiles(fs, NAMES_INCLUDE),
                                       ReadFiles(fs, NAMES_EXCLUDE))
            /\ attrs' = attrs \cup {"names_set"}
            /\ pc' = "__init__countries"
            /\ UNCHANGED raised
    /\ UNCHANGED <<countries_set, record, fingerprint, longest_range,
                   fingerprint_cls, founder, include_range, result, memo,
                   loaded, fs, parser, categorizer, category, company,
                   transformed, classify_calls, parse_calls, threads, feed,
                   docs, ensemble, yielded>>

\* self.countries_set = self.load_dicts(include=[...], exclude=[])
InitCountries ==
    /\ pc = "__init__countries"
    /\ IF load_dicts_raises(fs, COUNTRIES_INCLUDE, COUNTRIES_EXCLUDE)
       THEN /\ raised' = "OSError"
            /\ pc' = "raised"
            /\ UNCHANGED <<countries_set, attrs, categorizer, category, company,
                   transformed, classify_calls, parse_calls, threads, feed,
                   docs, ensemble, yielded>>
       ELSE /\ countries_set' = load_dicts(ReadFiles(fs, COUNTRIES_INCLUDE),
                                           ReadFiles(fs, COUNTRIES_EXCLUDE))
            /\ attrs' = attrs \cup {"countries_set"}
            /\ pc' = "__init__return"
            /\ UNCHANGED raised
    /\ UNCHANGED <<names_set, record, fingerprint, longest_range,
                   fingerprint_cls, founder, include_range, result, memo,
                   loaded, fs, parser, categorizer, category, company,
                   transformed, classify_calls, parse_calls, threads, feed,
                   docs, ensemble, yielded>>

\* __init__ returns and the caller binds the instance
\* (self.parser = HeuristicBasedParser())
ReturnInstance ==
    /\ pc = "__init__return"
    /\ parser' = TRUE
    /\ pc' = "idle"
    /\ UNCHANGED <<names_set, countries_set, record, fingerprint,
                   longest_range, fingerprint_cls, founder, include_range,
                   result, raised, memo, loaded, fs, attrs, categorizer,
                   category, company, transformed, classify_calls,
                   parse_calls, threads, feed, docs, ensemble, yielded>>

ParseConstructed == ParseFoundersRecordOn(ConstructRecords)

NextConstruct ==
    \/ InitNames
    \/ InitCountries
    \/ ReturnInstance
    \/ ParseConstructed

SpecConstruct == InitConstruct /\ [][NextConstruct]_vars

\* C21: if any include or exclude word-list file is missing or unreadable,
\* the construction fails with an error that reaches the caller: the caller
\* never holds an instance, no parse runs, and an instance the caller does
\* hold has both gazetteers loaded in full from all of their files.
C21_ConstructionFailsOnUnreadableFile ==
    /\ (\E f \in DatasetFiles : ~fs[f].readable) =>
           /\ ~parser
           /\ pc \in {"__init__", "__init__countries", "raised"}
           /\ result = NoResult
    /\ pc = "raised" => raised = "OSError" /\ ~parser
    /\ parser =>
           /\ attrs = ATTRIBUTES
           /\ names_set = load_dicts(ReadFiles(fs, NAMES_INCLUDE),
                                     ReadFiles(fs, NAMES_EXCLUDE))
           /\ countries_set = load_dicts(ReadFiles(fs, COUNTRIES_INCLUDE),
                                         ReadFiles(fs, COUNTRIES_EXCLUDE))

\* the names were loaded and assigned, then countries.txt could not be
\* opened: the half-built instance is never handed to the caller
C21_Witness ==
    /\ pc = "raised"
    /\ raised = "OSError"
    /\ attrs = {"names_set"}
    /\ names_set = {"ivan", "petrenko"}
    /\ ~fs["countries.txt"].readable
    /\ ~parser

-----------------------------------------------------------------------------
(* The categorizer: HasBeneficiaryOwnershipRecord.classify / is_absent /   *)
(* is_reference, each bool(set(tokenized_record).intersection(markers)).   *)

MaxCatLen == 3

\* set(tokenized_record)
PySet(seq) == {seq[i] : i \in 1..Len(seq)}

\* bool() of a set
PyBool(S) == S # {}

intersects_first_token(tokenized_record, markers) ==
    Len(tokenized_record) > 0 /\ tokenized_record[1] \in markers

intersects(tokenized_record, markers) ==
    PyBool(PySet(tokenized_record) \cap markers)

classify(tokenized_record) ==
    intersects(tokenized_record, categorizer.bo_markers)

is_absent(tokenized_record) ==
    intersects(tokenized_record, categorizer.absent_markers)

is_reference(tokenized_record) ==
    intersects(tokenized_record, categorizer.ref_markers)

CatTokens == {"beneficiarnyi", "kontroler", "vidsutnii", "zasnovnyk", "ivan"}
CatRecords == Seqs(CatTokens, MaxCatLen)

Classify ==
    /\ pc = "idle"
    /\ \E f \in CatRecords :
          category' = [op |-> "classify", tokenized_record |-> f,
                       value |-> classify(f)]
    /\ pc' = "classify"
    /\ UNCHANGED <<names_set, countries_set, record, fingerprint,
                   longest_range, fingerprint_cls, founder, include_range,
                   result, raised, memo, loaded, fs, attrs, parser,
                   categorizer, company, transformed, classify_calls,
                   parse_calls, threads, feed, docs, ensemble, yielded>>

IsAbsent ==
    /\ pc = "idle"
    /\ \E f \in CatRecords :
          category' = [op |-> "is_absent", tokenized_record |-> f,
                       value |-> is_absent(f)]
    /\ pc' = "is_absent"
    /\ UNCHANGED <<names_set, countries_set, record, fingerprint,
                   longest_range, fingerprint_cls, founder, include_range,
                   result, raised, memo, loaded, fs, attrs, parser,
                   categorizer, company, transformed, classify_calls,
                   parse_calls, threads, feed, docs, ensemble, yielded>>

IsReference ==
    /\ pc = "idle"
    /\ \E f \in CatRecords :
          category' = [op |-> "is_reference", tokenized_record |-> f,
                       value |-> is_reference(f)]
    /\ pc' = "is_reference"
    /\ UNCHANGED <<names_set, countries_set, record, fingerprint,
                   longest_range, fingerprint_cls, founder, include_range,
                   result, raised, memo, loaded, fs, attrs, parser,
                   categorizer, company, transformed, classify_calls,
                   parse_calls, threads, feed, docs, ensemble, yielded>>

NextCategorize ==
    \/ Classify
    \/ IsAbsent
    \/ IsReference

SpecCategorize == Init /\ [][NextCategorize]_vars

\* the marker set an operation of the categorizer looks into
MarkersOf(op) ==
    CASE op = "classify" -> categorizer.bo_markers
      [] op = "is_absent" -> categorizer.absent_markers
      [] op = "is_reference" -> categorizer.ref_markers

\* the value the operation gives on another record
ValueOn(op, g) ==
    CASE op = "classify" -> classify(g)
      [] op = "is_absent" -> is_absent(g)
      [] op = "is_reference" -> is_reference(g)

\* C22: classify, is_absent and is_reference return true iff at least one
\* token of the record is in the BO-marker, absent-marker and
\* reference-marker set respectively; every record with the same set of
\* distinct tokens gets the same value and the empty record gets false.
C22_PredicatesAreMarkerIntersection ==
    category.op # "" =>
        LET f == category.tokenized_record
        IN  /\ category.value =
                   (\E i \in 1..Len(f) : f[i] \in MarkersOf(category.op))
            /\ \A g \in CatRecords :
                   {g[i] : i \in 1..Len(g)} = {f[i] : i \in 1..Len(f)} =>
                       ValueOn(category.op, g) = category.value
            /\ (f = <<>> => category.value = FALSE)

\* a marker in the last place after a repeated ordinary token; the record
\* also holds an absent marker, and both predicates are true of it
C22_Witness ==
    /\ category.op = "classify"
    /\ category.tokenized_record = <<"ivan", "vidsutnii", "kontroler">>
    /\ category.value = TRUE
    /\ is_absent(category.tokenized_record)
    /\ ~is_reference(category.tokenized_record)

-----------------------------------------------------------------------------
(* Pre-processing (PreProcessor.process_founders) and                      *)
(* Transformer.transform_company.  A company is a dict: a function on the  *)
(* keys it has.  The tokenizer is the constructor's parameter; the texts   *)
(* of the model are words and lone dashes separated by single blanks, on   *)
(* which a word tokenizer is a split at the blanks.                        *)

MaxFounders == 3

\* s.split(" ")
RECURSIVE SplitLoop(_, _, _, _)
SplitLoop(s, i, word, res) ==
    IF i > Len(s) THEN Append(res, word)
    ELSE IF SubSeq(s, i, i) = " "
         THEN SplitLoop(s, i + 1, "", Append(res, word))
         ELSE SplitLoop(s, i + 1, word \o SubSeq(s, i, i), res)

tokenizer(s) == IF s = "" THEN <<>> ELSE SplitLoop(s, 1, "", <<>>)

\* x.strip("-")
RECURSIVE LStripDash(_)
LStripDash(x) ==
    IF Len(x) > 0 /\ SubSeq(x, 1, 1) = "-"
    THEN LStripDash(SubSeq(x, 2, Len(x))) ELSE x

RECURSIVE RStripDash(_)
RStripDash(x) ==
    IF Len(x) > 0 /\ SubSeq(x, Len(x), Len(x)) = "-"
    THEN RStripDash(SubSeq(x, 1, Len(x) - 1)) ELSE x

StripDash(x) == RStripDash(LStripDash(x))

\* list(map(lambda x: x.strip("-"), self.tokenizer(l.strip().lower())))
process_founder(l) ==
    LET tokens == tokenizer(Lower(Strip(l)))
    IN  [i \in 1..Len(tokens) |-> StripDash(tokens[i])]

\* company.get("founders", []) or []
process_founders(c) ==
    IF "founders" \in DOMAIN c
    THEN [i \in 1..Len(c.founders) |-> process_founder(c.founders[i])]
    ELSE <<>>

\* the loop of transform_company: founder records the categorizer passes,
\* with the calls of classify it made
RECURSIVE GateLoop(_, _, _, _)
GateLoop(processed, i, founders, calls) ==
    IF i > Len(processed) THEN [founders |-> founders, calls |-> calls]
    ELSE LET f == processed[i]
             call == [tokenized_record |-> f, value |-> classify(f)]
         IN  GateLoop(processed, i + 1,
                      IF classify(f) THEN Append(founders, f) ELSE founders,
                      Append(calls, call))

gate_ungated(processed) ==
    [founders |-> processed,
     calls |-> [j \in 1..Len(processed) |->
                   [tokenized_record |-> processed[j],
                    value |-> classify(processed[j])]]]

gate(processed) == GateLoop(processed, 1, <<>>, <<>>)

\* list(map(self.parser.parse_founders_record, founders))
parse_beneficial_owners(founders) ==
    [i \in 1..Len(founders) |-> parse_founders_record(founders[i], FALSE)]

\* company["name"] or company["edrpou"] of a dict without the key
transform_company_raises(c) ==
    IF "name" \notin DOMAIN c \/ "edrpou" \notin DOMAIN c
    THEN "KeyError" ELSE ""

transform_company(c, founders) ==
    [k \in {"Name", "Company number", "Beneficial owners"} |->
        CASE k = "Name" -> c.name
          [] k = "Company number" -> c.edrpou
          [] k = "Beneficial owners" -> parse_beneficial_owners(founders)]

\* founder texts: a BO record with capitals and a hanging dash, a plain
\* founder, a BO record with a country and an address, an absence note
FounderTexts ==
    {" Kontroler - Ivan Petrenko ta", "ivan petrenko",
     "kontroler ukraina kyiv", "vidsutnii"}

Companies ==
    LET F == Seqs(FounderTexts, MaxFounders)
    IN  {[name |-> "tov", edrpou |-> "00000001", founders |-> fl] : fl \in F}
        \cup {[name |-> "tov", edrpou |-> "00000001"]}
        \cup {[edrpou |-> "00000001", founders |-> fl] : fl \in F}

TransformCompany ==
    /\ pc = "idle"
    /\ parser
    /\ \E c \in Companies :
          LET gated == gate(process_founders(c))
          IN  /\ company' = c
              /\ classify_calls' = gated.calls
              /\ raised' = transform_company_raises(c)
              /\ IF transform_company_raises(c) = ""
                 THEN /\ transformed' = transform_company(c, gated.founders)
                      /\ parse_calls' = gated.founders
                 ELSE /\ transformed' = NoResult
                      /\ parse_calls' = <<>>
    /\ pc' = "transform_company"
    /\ UNCHANGED <<names_set, countries_set, record, fingerprint,
                   longest_range, fingerprint_cls, founder, include_range,
                   result, memo, loaded, fs, attrs, parser, categorizer,
                   category, threads, feed, docs, ensemble, yielded>>

NextTransform == TransformCompany

SpecTransform == Init /\ [][NextTransform]_vars

\* the founder records of a company as the categorizer and the parser see
\* them
Tokenized(c) == process_founders(c)

HasBoMarker(f) == \E i \in 1..Len(f) : f[i] \in categorizer.bo_markers

\* C23: in Transformer.transform_company the parser is invoked on a
\* founder record iff classify returned true for it: classify is called on
\* every founder record in order, the parser on exactly those it passed,
\* and 'Beneficial owners' holds one parse result per BO-classified founder
\* record, in the founder order, and nothing for the others.
C23_CategorizerGatesParser ==
    (pc = "transform_company" /\ raised = "") =>
        LET P == Tokenized(company)
            passed == SelectSeq(classify_calls, LAMBDA call : call.value)
            owners == transformed["Beneficial owners"]
        IN  /\ Len(classify_calls) = Len(P)
            /\ \A i \in 1..Len(P) :
                   /\ classify_calls[i].tokenized_record = P[i]
                   /\ classify_calls[i].value = HasBoMarker(P[i])
            /\ parse_calls = [i \in 1..Len(passed) |->
                                 passed[i].tokenized_record]
            /\ parse_calls = SelectSeq(P, HasBoMarker)
            /\ Len(owners) = Len(parse_calls)
            /\ \A i \in 1..Len(owners) :
                   owners[i] = parse_founders_record(parse_calls[i], FALSE)

\* a plain founder between two BO records: two parse results, in order
C23_Witness ==
    /\ pc = "transform_company"
    /\ raised = ""
    /\ "founders" \in DOMAIN company
    /\ company.founders = <<"kontroler ukraina kyiv", "ivan petrenko",
                            " Kontroler - Ivan Petrenko ta">>
    /\ parse_calls = <<<<"kontroler", "ukraina", "kyiv">>,
                       <<"kontroler", "", "ivan", "petrenko", "ta">>>>
    /\ Len(transformed["Beneficial owners"]) = 2
    /\ transformed["Beneficial owners"][1]["Country of residence"] =
           <<"ukraina">>
    /\ transformed["Beneficial owners"][1]["Address of residence"] =
           <<"kyiv">>

-----------------------------------------------------------------------------
(* Concurrent callers: each thread makes one call of parse_founders_record *)
(* (with include_range=True) or of classify on the shared instances; the   *)
(* steps of a call are the statements of the method, each reading and      *)
(* writing the locals of its own frame and reading the gazetteers.         *)

ThreadRecords ==
    RepeatRecords \cup {<<"kontroler">>, <<"kontroler", "ukraina">>}

\* the frame every thread would use if the locals were shared
frame_shared(t) == threads["t1"]

\* the frame of the call running in thread t
frame(t) == threads[t]

ThreadUnchanged ==
    UNCHANGED <<names_set, countries_set, pc, record, fingerprint,
                longest_range, fingerprint_cls, founder, include_range,
                result, raised, memo, loaded, fs, attrs, parser, categorizer,
                category, company, transformed, classify_calls, parse_calls,
                feed, docs, ensemble, yielded>>

Call(t) ==
    /\ parser
    /\ threads[t].pc = "idle"
    /\ \E f \in ThreadRecords, op \in {"parse_founders_record", "classify"} :
          threads' = [threads EXCEPT ![t] =
                         [IdleFrame EXCEPT !.pc = op, !.op = op,
                                           !.founder = f]]
    /\ ThreadUnchanged

\* name_rec = {"record": founder, "preclassified": ...}
ThreadNameRec(t) ==
    /\ threads[t].pc = "parse_founders_record"
    /\ threads' = [threads EXCEPT ![t].name_rec = name_rec(frame(t).founder),
                                  ![t].pc = "names"]
    /\ ThreadUnchanged

\* record_parser.py:203-217
ThreadNames(t) ==
    /\ threads[t].pc = "names"
    /\ threads' = [threads EXCEPT ![t].names = name_part_of(frame(t).name_rec),
                                  ![t].pc = "country_rec"]
    /\ ThreadUnchanged

\* country_rec = {"record": founder, "preclassified": ...}
ThreadCountryRec(t) ==
    /\ threads[t].pc = "country_rec"
    /\ threads' = [threads EXCEPT
                      ![t].country_rec = country_rec(frame(t).founder),
                      ![t].pc = "countries"]
    /\ ThreadUnchanged

\* record_parser.py:224-255
ThreadCountries(t) ==
    /\ threads[t].pc = "countries"
    /\ threads' = [threads EXCEPT
                      ![t].countries = country_part_of(frame(t).country_rec),
                      ![t].pc = "result"]
    /\ ThreadUnchanged

\* record_parser.py:257-270
ThreadResult(t) ==
    /\ threads[t].pc = "result"
    /\ threads' = [threads EXCEPT
                      ![t].result = parse_result(frame(t).names,
                                                 frame(t).countries, TRUE),
                      ![t].pc = "done"]
    /\ ThreadUnchanged

\* return bool(set(tokenized_record).intersection(self.bo_markers))
ThreadClassify(t) ==
    /\ threads[t].pc = "classify"
    /\ threads' = [threads EXCEPT ![t].value = classify(frame(t).founder),
                                  ![t].pc = "done"]
    /\ ThreadUnchanged

NextThreads ==
    \E t \in Threads :
        \/ Call(t)
        \/ ThreadNameRec(t)
        \/ ThreadNames(t)
        \/ ThreadCountryRec(t)
        \/ ThreadCountries(t)
        \/ ThreadResult(t)
        \/ ThreadClassify(t)

SpecThreads == Init /\ [][NextThreads]_vars

\* every finished call has the result of the same call run alone
AsAlone ==
    \A t \in Threads :
        threads[t].pc = "done" =>
            IF threads[t].op = "parse_founders_record"
            THEN /\ parse_founders_record_raises(threads[t].founder) = ""
                 /\ threads[t].result =
                        parse_founders_record(threads[t].founder, TRUE)
            ELSE threads[t].value = HasBoMarker(threads[t].founder)

\* a step leaves the gazetteers, the marker sets and the frames of the
\* other threads as they were
Isolated ==
    /\ names_set' = names_set
    /\ countries_set' = countries_set
    /\ categorizer' = categorizer
    /\ \E t \in Threads : \A u \in Threads \ {t} : threads'[u] = threads[u]

\* C24: once the gazetteers are constructed, under every interleaving of
\* the steps of two parse_founders_record or classify invocations on the
\* same parser and categorizer each invocation yields the result it yields
\* when run alone, and no step writes state another invocation reads.
C24_InterleavingsAreIsolated == []AsAlone /\ [][Isolated]_vars

\* both threads have finished different calls whose steps overlapped
C24_Witness ==
    /\ threads["t1"].pc = "done"
    /\ threads["t2"].pc = "done"
    /\ threads["t1"].founder = <<"ukraina", "kyiv">>
    /\ threads["t1"].op = "parse_founders_record"
    /\ threads["t1"].result["Address of residence"] = <<"kyiv">>
    /\ threads["t2"].founder = <<"kyiv", "ukraina">>
    /\ threads["t2"].op = "parse_founders_record"
    /\ threads["t2"].result["Address of residence"] = <<>>

-----------------------------------------------------------------------------
(* The reader: EDRReader.iter_docs over the <RECORD> chunks of the feed.   *)
(* A chunk either parses (ET.fromstring returns the element) or raises     *)
(* ParseError; the handler of ParseError calls self.stderr.write, and      *)
(* EDRReader assigns no attribute stderr.                                  *)

MaxFeed == 4

\* el.text.lstrip('0')
RECURSIVE LStripZero(_)
LStripZero(s) ==
    IF Len(s) > 0 /\ SubSeq(s, 1, 1) = "0"
    THEN LStripZero(SubSeq(s, 2, Len(s))) ELSE s

\* s.rjust(8, "0")
RECURSIVE RJust8(_)
RJust8(s) == IF Len(s) >= 8 THEN s ELSE RJust8("0" \o s)

\* str(int(el.text)).rjust(8, "0") on a text of digits
edrpou_of(text) ==
    IF LStripZero(text) # "" THEN RJust8(LStripZero(text)) ELSE text

\* the dict built from a parsed chunk (reader.py:61-70)
company_of(chunk) ==
    [name |-> chunk.name, edrpou |-> edrpou_of(chunk.edrpou),
     founders |-> chunk.founders]

\* self.stderr.write(...) in the handler of ParseError
iter_docs_handler(self_attrs) ==
    IF "stderr" \in self_attrs THEN "" ELSE "AttributeError"

\* the attributes of an EDRReader (reader.py:27)
READER_ATTRIBUTES == {"file_path"}

RECURSIVE IterLoop(_, _, _)
IterLoop(chunks, i, companies) ==
    IF i > Len(chunks) THEN [docs |-> companies, raised |-> ""]
    ELSE IF ~chunks[i].well_formed
         THEN IF iter_docs_handler(READER_ATTRIBUTES) # ""
              THEN [docs |-> companies,
                    raised |-> iter_docs_handler(READER_ATTRIBUTES)]
              ELSE IterLoop(chunks, i + 1, companies)
         ELSE IterLoop(chunks, i + 1, Append(companies, company_of(chunks[i])))

iter_docs(chunks) == IterLoop(chunks, 1, <<>>)

Malformed == [well_formed |-> FALSE, name |-> "", edrpou |-> "",
              founders |-> <<>>]

Chunks ==
    {Malformed,
     [well_formed |-> TRUE, name |-> "tov", edrpou |-> "012",
      founders |-> <<"kontroler ukraina kyiv">>],
     [well_formed |-> TRUE, name |-> "pp", edrpou |-> "00",
      founders |-> <<>>]}

Feeds == Seqs(Chunks, MaxFeed)

\* the consumer iterates the generator to its end (or to its exception)
IterDocs ==
    /\ pc = "idle"
    /\ \E chunks \in Feeds :
          /\ feed' = chunks
          /\ docs' = iter_docs(chunks).docs
          /\ raised' = iter_docs(chunks).raised
    /\ pc' = "iter_docs"
    /\ UNCHANGED <<names_set, countries_set, record, fingerprint,
                   longest_range, fingerprint_cls, founder, include_range,
                   result, memo, loaded, fs, attrs, parser, categorizer,
                   category, company, transformed, classify_calls,
                   parse_calls, threads, ensemble, yielded>>

NextRead == IterDocs

SpecRead == Init /\ [][NextRead]_vars

\* C25: when a <RECORD> chunk fails XML parsing, iter_docs skips it and
\* goes on: the iteration ends without an error and has yielded the
\* company of every well-formed chunk, in feed order.
C25_MalformedChunkIsSkipped ==
    pc = "iter_docs" =>
        /\ raised = ""
        /\ docs = LET good == SelectSeq(feed, LAMBDA c : c.well_formed)
                  IN  [i \in 1..Len(good) |->
                          [name |-> good[i].name,
                           edrpou |-> edrpou_of(good[i].edrpou),
                           founders |-> good[i].founders]]

-----------------------------------------------------------------------------
(* EnsembleBasedParser.  A voter is given by what its parse_founders_      *)
(* record returns for the record at hand.  An instance is the dict of its  *)
(* attributes.  parse_founders_record reads the name rec, which is not its *)
(* parameter (founder) but a global of the module: it is bound, to the     *)
(* record passed, when the module runs as a script (record_parser.py:601)  *)
(* and unbound when the module is imported.                                *)

MaxVoters == 3

\* __init__(self, voters, cutoff=1)
EnsembleBasedParser(voters, cutoff) == [voters |-> voters]

\* rng1[0] <= rng2[1] and rng2[0] <= rng1[1]
does_intersect(rng1, rng2) == rng1[1] <= rng2[2] /\ rng2[1] <= rng1[2]

\* Counter(votes): the distinct votes in the order first seen, each with
\* the number of votes equal to it
RECURSIVE CounterLoop(_, _, _)
CounterLoop(votes, i, cntr) ==
    IF i > Len(votes) THEN cntr
    ELSE IF \E j \in 1..Len(cntr) : cntr[j].k = votes[i]
         THEN CounterLoop(votes, i + 1,
                  [j \in 1..Len(cntr) |->
                      IF cntr[j].k = votes[i]
                      THEN [cntr[j] EXCEPT !.v = @ + 1] ELSE cntr[j]])
         ELSE CounterLoop(votes, i + 1,
                  Append(cntr, [k |-> votes[i], v |-> 1]))

Counter(votes) == CounterLoop(votes, 1, <<>>)

\* cntr.most_common(): by count, largest first, equal counts in the order
\* first seen
RECURSIVE InsertByCountDesc(_, _)
InsertByCountDesc(sorted, x) ==
    IF sorted = <<>> THEN <<x>>
    ELSE IF Head(sorted).v >= x.v
         THEN <<Head(sorted)>> \o InsertByCountDesc(Tail(sorted), x)
         ELSE <<x>> \o sorted

RECURSIVE most_common(_)
most_common(cntr) ==
    IF cntr = <<>> THEN <<>>
    ELSE InsertByCountDesc(most_common(SubSeq(cntr, 1, Len(cntr) - 1)),
                           cntr[Len(cntr)])

\* calculate_individual_votes: self.cutoff is read at the first counted
\* vote
calculate_individual_votes(self, votes) ==
    LET mc == most_common(Counter(votes))
    IN  IF mc = <<>>
        THEN [res_good |-> <<>>, res_bad |-> <<>>, raised |-> ""]
        ELSE IF "cutoff" \notin DOMAIN self
        THEN [res_good |-> <<>>, res_bad |-> <<>>,
              raised |-> "AttributeError"]
        ELSE [res_good |-> LET g == SelectSeq(mc, LAMBDA e : e.v > self.cutoff)
                           IN  [i \in 1..Len(g) |-> g[i].k],
              res_bad |-> LET b == SelectSeq(mc, LAMBDA e : ~(e.v > self.cutoff))
                          IN  [i \in 1..Len(b) |-> b[i].k],
              raised |-> ""]

RNG_KEYS == <<"name_rng", "country_rng", "address_rng">>
TEXT_KEYS == <<"Name", "Country of residence", "Address of residence">>

\* combined[k] += res[k] over the voters, for a range key
RECURSIVE Combined(_, _, _)
Combined(voters, k, i) ==
    IF i > Len(voters) THEN <<>>
    ELSE voters[i][k] \o Combined(voters, k, i + 1)

\* [" ".join(rec[r[0]:r[-1]]) for r in rngs]
RangeTexts(rec, rngs) ==
    [i \in 1..Len(rngs) |-> Join(PySlice(rec, rngs[i][1], rngs[i][2]))]

\* the loop over the three entity types (record_parser.py:552-563): the
\* Counters built so far, the result filled so far, the exception if any
RECURSIVE EntityLoop(_, _, _, _, _)
EntityLoop(self, rec, j, cntr, res) ==
    IF j > Len(RNG_KEYS) THEN [cntr |-> cntr, result |-> res, raised |-> ""]
    ELSE LET k1 == RNG_KEYS[j]
             k2 == TEXT_KEYS[j]
             votes == Combined(self.voters, k1, 1)
             civ == calculate_individual_votes(self, votes)
             cntr1 == Append(cntr, Counter(votes))
         IN  IF civ.raised # ""
             THEN [cntr |-> cntr1, result |-> NoResult, raised |-> civ.raised]
             ELSE EntityLoop(self, rec, j + 1, cntr1,
                      (k1 :> civ.res_good) @@
                      (k2 :> RangeTexts(rec, civ.res_good)) @@
                      ((k1 \o "_outliers") :> civ.res_bad) @@
                      ((k2 \o "_outliers") :> RangeTexts(rec, civ.res_bad)) @@
                      res)

\* if not include_range: del result[...]
WithoutRanges(res) ==
    [k \in DOMAIN res \ {"name_rng", "country_rng", "address_rng"} |-> res[k]]

ensemble_parse(self, rec_bound, f, with_range) ==
    IF Len(self.voters) > 0 /\ ~rec_bound
    THEN [cntr |-> <<>>, result |-> NoResult, raised |-> "NameError"]
    ELSE LET run == EntityLoop(self, f, 1, <<>>, <<>>)
         IN  IF run.raised # "" \/ with_range THEN run
             ELSE [run EXCEPT !.result = WithoutRanges(@)]

\* what a voter may return for the record of the model
ENSEMBLE_RECORD == <<"ivan", "ivan", "petrenko", "ukraina", "kyiv">>

VoterResults ==
    {[k \in {"name_rng", "country_rng", "address_rng"} |->
         CASE k = "name_rng" -> n
           [] k = "country_rng" -> c
           [] k = "address_rng" -> <<>>] :
        n \in {<<>>, <<<<0, 3>>>>, <<<<1, 3>>>>},
        c \in {<<>>, <<<<3, 4>>>>}}

Ensembles == UNION {[1..n -> VoterResults] : n \in 0..MaxVoters}

EnsembleParse ==
    /\ pc = "idle"
    /\ \E voters \in Ensembles, cutoff \in 0..(MaxVoters - 1),
          rec_bound \in BOOLEAN, with_range \in BOOLEAN :
          LET self == EnsembleBasedParser(voters, cutoff)
              run == ensemble_parse(self, rec_bound, ENSEMBLE_RECORD,
                                    with_range)
          IN  /\ ensemble' = [self |-> self, cutoff |-> cutoff,
                              rec_bound |-> rec_bound, cntr |-> run.cntr]
              /\ founder' = ENSEMBLE_RECORD
              /\ include_range' = with_range
              /\ result' = run.result
              /\ raised' = run.raised
    /\ pc' = "ensemble"
    /\ UNCHANGED <<names_set, countries_set, record, fingerprint,
                   longest_range, fingerprint_cls, memo, loaded, fs, attrs,
                   parser, categorizer, category, company, transformed,
                   classify_calls, parse_calls, threads, feed, docs, yielded>>

NextEnsemble == EnsembleParse

SpecEnsemble == Init /\ [][NextEnsemble]_vars

\* the votes cast for an entity type, and how many of them equal a span
VotesFor(k1) == Combined(ensemble.self.voters, k1, 1)

VoteCount(k1, span) ==
    Cardinality({i \in 1..Len(VotesFor(k1)) : VotesFor(k1)[i] = span})

ListSet(seq) == {seq[i] : i \in 1..Len(seq)}

\* C26: the ensemble parser accepts a span into the final result iff it
\* received strictly more than cutoff votes, cutoff being the value passed
\* to the constructor; every other voted span is reported under the
\* '_outliers' key, so each distinct voted span is in exactly one of the
\* accepted list and the outlier list.
C26_AcceptedIffMoreThanCutoffVotes ==
    pc = "ensemble" =>
        /\ raised = ""
        /\ \A j \in 1..Len(RNG_KEYS) :
              LET k1 == RNG_KEYS[j]
                  outliers == ListSet(result[k1 \o "_outliers"])
                  accepted == IF include_range
                              THEN ListSet(result[k1])
                              ELSE ListSet(VotesFor(k1)) \ outliers
              IN  /\ accepted \cup outliers = ListSet(VotesFor(k1))
                  /\ accepted \cap outliers = {}
                  /\ \A span \in ListSet(VotesFor(k1)) :
                         span \in accepted <=>
                             VoteCount(k1, span) > ensemble.cutoff
                  /\ Len(result[TEXT_KEYS[j]]) = Cardinality(accepted)

\* C27: votes are merged by span overlap: two spans that different voters
\* propose for the same entity type and that overlap, as does_intersect
\* decides, are counted as votes for the same entity, so the count of each
\* of them includes the other's vote.
C27_OverlappingSpansCountTogether ==
    (pc = "ensemble" /\ raised # "NameError") =>
        \A j \in 1..Len(ensemble.cntr) :
            LET voters == ensemble.self.voters
                k1 == RNG_KEYS[j]
            IN  \A a, b \in 1..Len(voters) :
                    \A s \in ListSet(voters[a][k1]),
                       t \in ListSet(voters[b][k1]) :
                        (a # b /\ does_intersect(s, t)) =>
                            \E e \in ListSet(ensemble.cntr[j]) :
                                e.k = s /\ e.v >= 2

-----------------------------------------------------------------------------
(* Pipeline.transform_company (evaluate.py), a generator: the consumer     *)
(* takes every record it yields.  The parser of a pipeline is the class    *)
(* its configuration names; it is called with include_stats=True and       *)
(* returns the extraction result of the record.                            *)

\* the parser configured for the pipeline, on one founder record
pipeline_parse(f) == parse_founders_record(f, FALSE)

\* company[...] of a dict without the key, while base_rec is built
BASE_KEYS ==
    {"name", "edrpou", "location", "head", "company_profile", "status"}

pipeline_transform_company_raises(c) ==
    IF BASE_KEYS \subseteq DOMAIN c THEN "" ELSE "KeyError"

base_rec(c) ==
    ("Company name" :> c.name) @@
    ("Company number" :> c.edrpou) @@
    ("Company address" :> c.location) @@
    ("Company head" :> c.head) @@
    ("Company profile" :> c.company_profile) @@
    ("Company status" :> c.status) @@
    ("Is beneficial owner" :> FALSE)

\* d.update(other): the keys of other win
PyUpdate(d, other) == other @@ d

\* the record an iteration starts from, were rec kept between iterations
fresh_rec_carried(base, previous) == previous

\* rec = base_rec.copy()
fresh_rec(base, previous) == base

\* the body of the loop over the founders (evaluate.py:102-115)
founder_rec(base, previous, f) ==
    LET rec == PyUpdate(fresh_rec(base, previous),
                        "Raw founder record" :> f)
    IN  IF classify(f)
        THEN PyUpdate(PyUpdate(rec, "Is beneficial owner" :> TRUE),
                      pipeline_parse(f))
        ELSE rec

RECURSIVE FoundersLoop(_, _, _, _, _)
FoundersLoop(base, processed, i, previous, out) ==
    IF i > Len(processed) THEN out
    ELSE LET rec == founder_rec(base, previous, processed[i])
         IN  FoundersLoop(base, processed, i + 1, rec, Append(out, rec))

pipeline_transform_company(c) ==
    LET founders == process_founders(c)
    IN  IF founders = <<>> THEN <<base_rec(c)>>
        ELSE FoundersLoop(base_rec(c), founders, 1, base_rec(c), <<>>)

PipelineCompanies ==
    {c @@ [location |-> "kyiv", head |-> "ivan", company_profile |-> "01.11",
           status |-> "zareiestrovano"] : c \in Companies}

PipelineTransformCompany ==
    /\ pc = "idle"
    /\ parser
    /\ \E c \in PipelineCompanies :
          /\ company' = c
          /\ raised' = pipeline_transform_company_raises(c)
          /\ IF pipeline_transform_company_raises(c) = ""
             THEN LET gated == gate(process_founders(c))
                  IN  /\ yielded' = pipeline_transform_company(c)
                      /\ classify_calls' = gated.calls
                      /\ parse_calls' = gated.founders
             ELSE /\ yielded' = <<>>
                  /\ classify_calls' = <<>>
                  /\ parse_calls' = <<>>
    /\ pc' = "pipeline_transform_company"
    /\ UNCHANGED <<names_set, countries_set, record, fingerprint,
                   longest_range, fingerprint_cls, founder, include_range,
                   result, memo, loaded, fs, attrs, parser, categorizer,
                   category, transformed, threads, feed, docs, ensemble>>

NextPipeline == PipelineTransformCompany

SpecPipeline == Init /\ [][NextPipeline]_vars

OWNER_KEYS == {"Name", "Country of residence", "Address of residence"}

-----------------------------------------------------------------------------
\* C29: the two run scanners agree on every classification vector:
\* get_longest_range returns none exactly when get_fingerprint returns the
\* empty tuple; otherwise the length of the returned span is the largest
\* entry of the fingerprint, every index of the span is classified true and
\* the tokens next to the span on either side, if any, are classified false.
C29_ScannersAgree ==
    pc = "get_longest_range" =>
        LET V == record.preclassified
            fp == get_fingerprint(record)
        IN  /\ raised = ""
            /\ (longest_range = None) <=> (fp = <<>>)
            /\ longest_range # None =>
                   LET start == longest_range[1]
                       end == longest_range[2]
                   IN  /\ \E k \in 1..Len(fp) : fp[k] = end - start
                       /\ \A k \in 1..Len(fp) : fp[k] <= end - start
                       /\ 0 <= start /\ start < end /\ end <= Len(V)
                       /\ \A i \in start..(end - 1) : V[i + 1]
                       /\ start > 0 => ~V[start]
                       /\ end < Len(V) => ~V[end + 1]

\* runs of 2 and 3 with the longest last: fingerprint (2, 3), span (4, 7)
C29_Witness ==
    /\ pc = "get_longest_range"
    /\ record.preclassified = <<FALSE, TRUE, TRUE, FALSE, TRUE, TRUE, TRUE>>
    /\ get_fingerprint(record) = <<2, 3>>
    /\ longest_range = <<4, 7>>

\* C30: whenever parse_founders_record reports an address range (a, b)
\* together with the country range (c, k), k <= a < b <= len(tokens): the
\* address lies after the country and inside the record; and no token of
\* the reported Address is the anchor keyword.
C30_AddressAfterCountryWithoutAnchor ==
    (/\ pc = "parse_founders_record"
     /\ raised = ""
     /\ include_range
     /\ result["address_rng"] # <<>>) =>
        /\ Len(result["address_rng"]) = 1
        /\ Len(result["country_rng"]) = 1
        /\ LET a == result["address_rng"][1][1]
               b == result["address_rng"][1][2]
               k == result["country_rng"][1][2]
           IN  /\ k <= a /\ a < b /\ b <= Len(founder)
               /\ \A i \in a..(b - 1) : founder[i + 1] # ANCHOR
               /\ result["Address of residence"] =
                      <<Join(SubSeq(founder, a + 1, b))>>

\* the address between the country and the anchor, a token after the anchor
C30_Witness ==
    /\ pc = "parse_founders_record"
    /\ include_range
    /\ founder = <<"ukraina", ",", "kyiv", ANCHOR, "ivan">>
    /\ result["country_rng"] = <<<<0, 1>>>>
    /\ result["address_rng"] = <<<<2, 3>>>>
    /\ result["Address of residence"] = <<"kyiv">>

====
